---- MODULE Spec2Model ----
(***************************************************************************)
(* CareMatch AI backend (src/backend/main.py): the two request handlers    *)
(* parse_resume and match_caregivers, as a state machine of one request.   *)
(* Text is a sequence of one-character strings, a JSON object is a         *)
(* function from its keys, a JSON array is a sequence.                     *)
(***************************************************************************)
EXTENDS Integers, Sequences, FiniteSets, TLC

VARIABLES
    op,              \* what is called: "parse_resume", "match", or a helper by name
    pc,              \* position of the handler
    file,            \* UploadFile of parse_resume: [filename, file_bytes]
    extracted_text,  \* parse_resume: text returned by extract_pdf_text
    profile_data,    \* parse_resume: the generator's parsed JSON object
    profile,         \* parse_resume: the CaregiverProfile returned
    profiles,        \* match: request.profiles
    match_data,      \* match: the generator's parsed JSON array
    appended,        \* match: per item of match_data, the MatchResult the loop
                     \*        appended, or None where the loop hit `continue`
    results,         \* match: the list returned
    kickoffs,        \* number of crew.kickoff() calls made in this request
    error,           \* the HTTPException raised, or NoError
    arg,             \* a helper function called on its own: its argument
    ret              \*        and what it returned or raised

vars == <<op, pc, file, extracted_text, profile_data, profile, profiles,
          match_data, appended, results, kickoffs, error, arg, ret>>

(***************************************************************************)
(* Bounds of the model.                                                    *)
(***************************************************************************)
MaxProfiles == 2
MaxEntries == 2
MaxIdEntries == 1
MaxBadgeEntries == 1
MaxRankEntries == 4
MaxFileBytes == 1
MaxPad == 1
MaxYearsLen == 3
MaxExpEntries == 2

(***************************************************************************)
(* Python values.                                                          *)
(***************************************************************************)
None == [py |-> "None"]
EmptyDict == <<>>
NoError == [status_code |-> 200, detail |-> ""]
HTTPException(code, msg) == [status_code |-> code, detail |-> msg]

\* dict.get(k, dflt)
Get(d, k, dflt) == IF k \in DOMAIN d THEN d[k] ELSE dflt

\* {**a, **b} for dictionaries with disjoint keys
Merge(a, b) ==
    [k \in (DOMAIN a) \cup (DOMAIN b) |-> IF k \in DOMAIN a THEN a[k] ELSE b[k]]

\* a dictionary that has key k (with a value of S) or lacks it
Opt(k, S) == {EmptyDict} \cup {[x \in {k} |-> v] : v \in S}

SeqsUpTo(S, n) == UNION {[1..m -> S] : m \in 0..n}

Range(s) == {s[i] : i \in DOMAIN s}

(***************************************************************************)
(* str.lower, str.strip, str.endswith on sequences of characters.          *)
(***************************************************************************)
UpperCase == <<"A","B","C","D","E","F","G","H","I","J","K","L","M",
               "N","O","P","Q","R","S","T","U","V","W","X","Y","Z">>
LowerCase == <<"a","b","c","d","e","f","g","h","i","j","k","l","m",
               "n","o","p","q","r","s","t","u","v","w","x","y","z">>

LowerChar(c) ==
    IF \E i \in DOMAIN UpperCase : UpperCase[i] = c
    THEN LowerCase[CHOOSE i \in DOMAIN UpperCase : UpperCase[i] = c]
    ELSE c

lower(s) == [i \in 1..Len(s) |-> LowerChar(s[i])]

Whitespace == {" ", "\n", "\t", "\r"}

RECURSIVE lstrip(_)
lstrip(s) == IF s # <<>> /\ s[1] \in Whitespace THEN lstrip(Tail(s)) ELSE s

RECURSIVE rstrip(_)
rstrip(s) ==
    IF s # <<>> /\ s[Len(s)] \in Whitespace
    THEN rstrip(SubSeq(s, 1, Len(s) - 1))
    ELSE s

strip(s) == rstrip(lstrip(s))

endswith(s, suffix) ==
    /\ Len(s) >= Len(suffix)
    /\ SubSeq(s, Len(s) - Len(suffix) + 1, Len(s)) = suffix

startswith(s, prefix) ==
    /\ Len(s) >= Len(prefix)
    /\ SubSeq(s, 1, Len(prefix)) = prefix

\* str.split("\n")
RECURSIVE split(_)
split(s) ==
    IF \A i \in DOMAIN s : s[i] # "\n"
    THEN <<s>>
    ELSE LET k == CHOOSE i \in DOMAIN s :
                      s[i] = "\n" /\ \A j \in 1..(i - 1) : s[j] # "\n"
         IN  <<SubSeq(s, 1, k - 1)>> \o split(SubSeq(s, k + 1, Len(s)))

\* "\n".join(lines)
RECURSIVE join(_)
join(lines) ==
    IF lines = <<>> THEN <<>>
    ELSE IF Len(lines) = 1 THEN lines[1]
    ELSE lines[1] \o <<"\n">> \o join(Tail(lines))

(***************************************************************************)
(* json.loads on a sequence of characters, for JSON made of objects,       *)
(* arrays, strings without escapes, non-negative integers and null.  A     *)
(* decoded value carries its Python type, and its content under a field    *)
(* named after the kind of content.                                        *)
(***************************************************************************)
JSONDecodeError == [py |-> "JSONDecodeError"]
JInt(n) == [t |-> "int", n |-> n]
JStr(chars) == [t |-> "str", s |-> chars]
JList(items) == [t |-> "list", items |-> items]
JDict(d) == [t |-> "dict", d |-> d]
JNull == [t |-> "NoneType"]

Digits == <<"0","1","2","3","4","5","6","7","8","9">>
IsDigit(c) == \E i \in DOMAIN Digits : Digits[i] = c
DigitValue(c) == (CHOOSE i \in DOMAIN Digits : Digits[i] = c) - 1

Bad == [ok |-> FALSE]
Good(value, rest) == [ok |-> TRUE, val |-> value, rest |-> rest]

RECURSIVE ScanDigits(_, _)
ScanDigits(s, n) ==
    IF s # <<>> /\ IsDigit(s[1])
    THEN ScanDigits(Tail(s), 10 * n + DigitValue(s[1]))
    ELSE Good(JInt(n), s)

\* s starts with a digit; a leading 0 is a number on its own
ScanNumber(s) == IF s[1] = "0" THEN Good(JInt(0), Tail(s)) ELSE ScanDigits(s, 0)

\* s follows an opening quote
ScanString(s) ==
    IF \A i \in DOMAIN s : s[i] # "\""
    THEN Bad
    ELSE LET k == CHOOSE i \in DOMAIN s :
                      s[i] = "\"" /\ \A j \in 1..(i - 1) : s[j] # "\""
             body == SubSeq(s, 1, k - 1)
         IN  IF \E i \in DOMAIN body : body[i] \in {"\n", "\t", "\r"}
             THEN Bad
             ELSE Good(JStr(body), SubSeq(s, k + 1, Len(s)))

RECURSIVE ScanValue(_)
RECURSIVE ScanMembers(_, _)
RECURSIVE ScanElements(_, _)

\* s follows "{" or ",", blanks skipped: a key, a colon, a value, then "," or "}"
ScanMembers(s, acc) ==
    IF s = <<>> \/ s[1] # "\""
    THEN Bad
    ELSE LET key == ScanString(Tail(s))
         IN  IF ~key.ok
             THEN Bad
             ELSE LET t == lstrip(key.rest)
                  IN  IF t = <<>> \/ t[1] # ":"
                      THEN Bad
                      ELSE LET val == ScanValue(Tail(t))
                           IN  IF ~val.ok
                               THEN Bad
                               ELSE LET u == lstrip(val.rest)
                                        acc2 == [k \in (DOMAIN acc) \cup {key.val.s} |->
                                                    IF k = key.val.s THEN val.val ELSE acc[k]]
                                    IN  IF u = <<>> THEN Bad
                                        ELSE IF u[1] = "}" THEN Good(JDict(acc2), Tail(u))
                                        ELSE IF u[1] = "," THEN ScanMembers(lstrip(Tail(u)), acc2)
                                        ELSE Bad

\* s follows "[" or ",": a value, then "," or "]"
ScanElements(s, acc) ==
    LET val == ScanValue(s)
    IN  IF ~val.ok
        THEN Bad
        ELSE LET u == lstrip(val.rest)
             IN  IF u = <<>> THEN Bad
                 ELSE IF u[1] = "]" THEN Good(JList(Append(acc, val.val)), Tail(u))
                 ELSE IF u[1] = "," THEN ScanElements(Tail(u), Append(acc, val.val))
                 ELSE Bad

ScanValue(s0) ==
    LET s == lstrip(s0)
    IN  IF s = <<>> THEN Bad
        ELSE IF s[1] = "{"
        THEN LET t == lstrip(Tail(s))
             IN  IF t # <<>> /\ t[1] = "}"
                 THEN Good(JDict(EmptyDict), Tail(t))
                 ELSE ScanMembers(t, EmptyDict)
        ELSE IF s[1] = "["
        THEN LET t == lstrip(Tail(s))
             IN  IF t # <<>> /\ t[1] = "]"
                 THEN Good(JList(<<>>), Tail(t))
                 ELSE ScanElements(t, <<>>)
        ELSE IF s[1] = "\"" THEN ScanString(Tail(s))
        ELSE IF IsDigit(s[1]) THEN ScanNumber(s)
        ELSE IF startswith(s, <<"n","u","l","l">>) THEN Good(JNull, SubSeq(s, 5, Len(s)))
        ELSE Bad

json_loads(s) ==
    LET r == ScanValue(s)
    IN  IF r.ok /\ lstrip(r.rest) = <<>> THEN r.val ELSE JSONDecodeError

(***************************************************************************)
(* PayloadExtractor: parse_json_from_text.                                 *)
(***************************************************************************)
\* the character U+0060, which a TLA+ string cannot hold
Backtick == "U+0060"

Fence == <<Backtick, Backtick, Backtick>>

\* parse_json_from_text that always drops the last line of a fenced text
parse_json_from_text_dropping_last(text) ==
    LET cleaned == strip(text)
    IN  IF startswith(cleaned, Fence)
        THEN LET lines == Tail(split(cleaned))
             IN  json_loads(join(IF lines # <<>>
                                 THEN SubSeq(lines, 1, Len(lines) - 1)
                                 ELSE lines))
        ELSE json_loads(cleaned)

parse_json_from_text(text) ==
    LET cleaned == strip(text)
    IN  IF startswith(cleaned, Fence)
        THEN LET lines == Tail(split(cleaned))
             IN  json_loads(join(IF lines # <<>> /\ strip(lines[Len(lines)]) = Fence
                                 THEN SubSeq(lines, 1, Len(lines) - 1)
                                 ELSE lines))
        ELSE json_loads(cleaned)

(***************************************************************************)
(* ExperienceSanitizer: sanitize_experience_data.  A mapping holds, under  *)
(* "years", a decoded JSON value (a string, a number or null) and, under   *)
(* its other keys, lists of strings.  float() of a string: blanks around   *)
(* an optional sign and decimal digits, ValueError otherwise.              *)
(***************************************************************************)
ValueError == [py |-> "ValueError"]
JFloat(n) == [t |-> "float", n |-> n]

RECURSIVE DecimalValue(_, _)
DecimalValue(s, n) ==
    IF s = <<>> THEN n ELSE DecimalValue(Tail(s), 10 * n + DigitValue(s[1]))

Unsigned(s) == IF s # <<>> /\ s[1] \in {"+", "-"} THEN Tail(s) ELSE s

Signed(s, n) == IF s # <<>> /\ s[1] = "-" THEN 0 - n ELSE n

\* float that reads the digits a string starts with and ignores the rest
float_of_leading_digits(s) ==
    LET body == strip(s)
        digits == Unsigned(body)
        k == CHOOSE i \in 0..Len(digits) :
                 /\ \A j \in 1..i : IsDigit(digits[j])
                 /\ i < Len(digits) => ~IsDigit(digits[i + 1])
    IN  IF k > 0
        THEN JFloat(Signed(body, DecimalValue(SubSeq(digits, 1, k), 0)))
        ELSE ValueError

float(s) ==
    LET body == strip(s)
        digits == Unsigned(body)
    IN  IF digits # <<>> /\ \A i \in DOMAIN digits : IsDigit(digits[i])
        THEN JFloat(Signed(body, DecimalValue(digits, 0)))
        ELSE ValueError

\* lines 101-130; exp_data is a mapping or None
sanitize_experience_data(exp_data) ==
    IF exp_data = None \/ DOMAIN exp_data = {}
    THEN EmptyDict
    ELSE IF "years" \in DOMAIN exp_data
    THEN LET years_value == exp_data["years"]
         IN  IF years_value.t = "str"
             THEN [exp_data EXCEPT !["years"] =
                      IF strip(years_value.s) # <<>>
                      THEN IF float(years_value.s) = ValueError
                           THEN JFloat(0)
                           ELSE float(years_value.s)
                      ELSE JFloat(0)]
             ELSE IF years_value.t = "NoneType"
             THEN [exp_data EXCEPT !["years"] = JFloat(0)]
             ELSE exp_data
    ELSE exp_data

(***************************************************************************)
(* ExperienceAssembler: the typed records and the CaregivingExperience     *)
(* aggregate, built the same way at lines 422-430 and 603-613.  The value  *)
(* under a key of the input mapping is a decoded JSON value: a mapping or  *)
(* null (a non-empty value that is not a mapping has no copy() and makes   *)
(* the request fail before anything is built).                             *)
(***************************************************************************)
\* bool(value)
truthy(j) ==
    CASE j.t = "NoneType" -> FALSE
      [] j.t = "dict" -> DOMAIN j.d # {}
      [] j.t = "str" -> j.s # <<>>
      [] j.t = "list" -> j.items # <<>>
      [] OTHER -> j.n # 0

\* dict.pop(k, None), for what is left in the dict
pop(d, k) == [x \in (DOMAIN d) \ {k} |-> d[x]]

SlotKeys ==
    <<"eldercare", "childcare", "special-needs", "post-surgery", "dementia", "disability">>

SlotNames ==
    <<"eldercare", "childcare", "special_needs", "post_surgery", "dementia", "disability">>

\* the list[str] fields of the class built for a key (lines 40-70)
ListFieldsOf(key) ==
    CASE key = "eldercare" -> {"conditions_experienced", "tasks_performed", "medical_care"}
      [] key = "childcare" -> {"conditions_experienced", "tasks_performed", "age_range"}
      [] key = "special-needs" ->
             {"conditions_experienced", "tasks_performed", "therapies_supported"}
      [] key = "post-surgery" -> {"surgeries_supported", "tasks_performed", "recovery_phases"}
      [] key = "dementia" -> {"dementia_types", "tasks_performed", "stages_experienced"}
      [] key = "disability" -> {"disability_types", "tasks_performed", "specialized_skills"}

\* Cls(**cleaned): declared fields with their defaults, other keys ignored
TypedExperience(key, cleaned) ==
    [f \in {"years"} \cup ListFieldsOf(key) |->
        IF f = "years"
        THEN IF "years" \in DOMAIN cleaned THEN cleaned["years"].n ELSE 0
        ELSE Get(cleaned, f, <<>>)]

\* CaregivingExperience whose slots are present whenever the key is there
CaregivingExperienceForAnyKey(d) ==
    [slot \in Range(SlotNames) |->
        LET key == SlotKeys[CHOOSE i \in DOMAIN SlotNames : SlotNames[i] = slot]
        IN  IF key \in DOMAIN d
            THEN TypedExperience(key,
                     sanitize_experience_data(
                         IF d[key].t = "dict" THEN d[key].d ELSE EmptyDict))
            ELSE None]

CaregivingExperience(d) ==
    [slot \in Range(SlotNames) |->
        LET key == SlotKeys[CHOOSE i \in DOMAIN SlotNames : SlotNames[i] = slot]
        IN  IF truthy(Get(d, key, JNull))
            THEN TypedExperience(key,
                     sanitize_experience_data(Get(d, key, JDict(EmptyDict)).d))
            ELSE None]

\* lines 419-430
caregiving_experience(data) ==
    LET caregiving_exp_data == Get(data, "caregiving_experience", JDict(EmptyDict))
    IN  IF truthy(caregiving_exp_data)
        THEN CaregivingExperience(caregiving_exp_data.d)
        ELSE None

\* lines 585, 596
why_match_data(item) ==
    Get(Get(item, "match_report", EmptyDict), "why_match", JDict(EmptyDict))

\* lines 597-617
overall_fit(item) ==
    LET w == why_match_data(item)
    IN  IF w.t = "dict" THEN Get(w.d, "explanation", <<>>)
        ELSE IF truthy(w) THEN w.s
        ELSE <<>>

\* line 603: the mapping is looked at before its note is popped
HasExperienceMapping(item) ==
    LET w == why_match_data(item)
    IN  /\ w.t = "dict"
        /\ truthy(Get(w.d, "caregiving_experience", JDict(EmptyDict)))
        /\ Get(w.d, "caregiving_experience", JDict(EmptyDict)).t = "dict"

\* lines 599-617
match_caregiving_experience(item) ==
    IF HasExperienceMapping(item)
    THEN CaregivingExperience(pop(why_match_data(item).d["caregiving_experience"].d, "note"))
    ELSE None

\* lines 587-593: a bare string becomes a list of one
AsList(j) == IF j.t = "str" THEN <<j.s>> ELSE j.items

\* lines 640-646
MatchExplanation(item) ==
    LET match_report == Get(item, "match_report", EmptyDict)
    IN  [overallFit |-> overall_fit(item),
         strengths |-> AsList(Get(match_report, "key_strengths", JList(<<>>))),
         gaps |-> AsList(Get(match_report, "gaps_or_considerations", JList(<<>>))),
         recommendation |-> Get(match_report, "recommendation", <<>>),
         caregiving_experience |-> match_caregiving_experience(item)]

\* line 605: the item as the loop leaves it, the note popped from its mapping
NotePopped(item) ==
    IF HasExperienceMapping(item)
    THEN LET w == why_match_data(item)
             popped == JDict(pop(w.d["caregiving_experience"].d, "note"))
         IN  [item EXCEPT !["match_report"] =
                 [@ EXCEPT !["why_match"] =
                     JDict([w.d EXCEPT !["caregiving_experience"] = popped])]]
    ELSE item

(***************************************************************************)
(* Caller-supplied CaregiverProfile records (match request).  Identifiers  *)
(* are only ever compared whole, so an identifier is an atom; names are    *)
(* lower-cased, so a name is a sequence of characters.                     *)
(***************************************************************************)
JaneDoe == <<"J","a","n","e"," ","D","o","e">>
JohnRoe == <<"J","o","h","n"," ","R","o","e">>
janedoe == <<"j","a","n","e"," ","d","o","e">>
JOHNROE == <<"J","O","H","N"," ","R","O","E">>
nobody == <<"n","o","b","o","d","y">>

CaregiverProfile(i, n) == [id |-> i, name |-> n]

(***************************************************************************)
(* IdentityResolver: match_caregivers, the two lookups and the resolution  *)
(* of one item.  A dict comprehension keeps, for a repeated key, the last  *)
(* profile that has it.                                                    *)
(***************************************************************************)
Last(indices) == CHOOSE i \in indices : \A j \in indices : j <= i

profile_lookup_by_id(ps) ==
    [k \in {ps[i].id : i \in DOMAIN ps} |->
        ps[Last({i \in DOMAIN ps : ps[i].id = k})]]

profile_lookup_by_name(ps) ==
    [k \in {lower(ps[i].name) : i \in DOMAIN ps} |->
        ps[Last({i \in DOMAIN ps : lower(ps[i].name) = k})]]

caregiver_id(item) == Get(item, "id", "")

caregiver_name(item) ==
    LET candidate_profile == Get(item, "candidate_profile", EmptyDict)
        nested == Get(candidate_profile, "candidate_name", <<>>)
    IN  IF nested # <<>> THEN nested ELSE Get(item, "name", <<>>)

\* Resolve with the two lookups tried in the other order
ResolveNameFirst(ps, item) ==
    LET by_name == Get(profile_lookup_by_name(ps), lower(caregiver_name(item)), None)
    IN  IF by_name # None
        THEN by_name
        ELSE Get(profile_lookup_by_id(ps), caregiver_id(item), None)

Resolve(ps, item) ==
    LET by_id == Get(profile_lookup_by_id(ps), caregiver_id(item), None)
    IN  IF by_id # None
        THEN by_id
        ELSE Get(profile_lookup_by_name(ps), lower(caregiver_name(item)), None)

(***************************************************************************)
(* MatchNormalizer: score, badge and the MatchResult of one item.  JSON    *)
(* numbers are integers here; float() of a number keeps its value.         *)
(***************************************************************************)
\* BadgeFromScore with the boundaries given to the lower tier
BadgeFromScoreStrict(score) ==
    IF score > 85 THEN "Top Match"
    ELSE IF score > 70 THEN "Strong Match"
    ELSE IF score > 50 THEN "Good Match"
    ELSE "No Match"

BadgeFromScore(score) ==
    IF score >= 85 THEN "Top Match"
    ELSE IF score >= 70 THEN "Strong Match"
    ELSE IF score >= 50 THEN "Good Match"
    ELSE "No Match"

match_badge(item) ==
    LET score == Get(item, "match_score", 0)
        given == Get(item, "match_badge", "")
    IN  IF given = "" THEN BadgeFromScore(score) ELSE given

\* MatchResult that also skips an item whose score is 0
MatchResultSkipZero(ps, item) ==
    LET found == Resolve(ps, item)
    IN  IF found = None \/ Get(item, "match_score", 0) = 0
        THEN None
        ELSE [caregiver |-> found,
              score |-> Get(item, "match_score", 0),
              rank |-> Get(item, "match_rank", 0),
              match_badge |-> match_badge(item),
              explanation |-> MatchExplanation(item)]

\* MatchResult whose caregiver is rebuilt from the item's own identity fields
MatchResultFromCandidate(ps, item) ==
    LET found == Resolve(ps, item)
    IN  IF found = None
        THEN None
        ELSE [caregiver |-> CaregiverProfile(caregiver_id(item), caregiver_name(item)),
              score |-> Get(item, "match_score", 0),
              rank |-> Get(item, "match_rank", 0),
              match_badge |-> match_badge(item),
              explanation |-> MatchExplanation(item)]

\* one iteration of the loop: None for `continue`, else the MatchResult appended
MatchResult(ps, item) ==
    LET found == Resolve(ps, item)
    IN  IF found = None
        THEN None
        ELSE [caregiver |-> found,
              score |-> Get(item, "match_score", 0),
              rank |-> Get(item, "match_rank", 0),
              match_badge |-> match_badge(item),
              explanation |-> MatchExplanation(item)]

LoopResults(ps, data) == [i \in DOMAIN data |-> MatchResult(ps, data[i])]

\* match_data after the loop: the items that were resolved had their note popped
LoopData(ps, data) ==
    [i \in DOMAIN data |->
        IF Resolve(ps, data[i]) # None THEN NotePopped(data[i]) ELSE data[i]]

(***************************************************************************)
(* RankReconciler: list.sort(key=score, reverse=True) is stable, equal     *)
(* scores keep their order; then rank = position.                          *)
(***************************************************************************)
\* InsertByScore that puts an item before the items of equal score
InsertBeforeTies(sorted, r) ==
    LET k == Cardinality({i \in DOMAIN sorted : sorted[i].score > r.score})
    IN  SubSeq(sorted, 1, k) \o <<r>> \o SubSeq(sorted, k + 1, Len(sorted))

InsertByScore(sorted, r) ==
    LET k == Cardinality({i \in DOMAIN sorted : sorted[i].score >= r.score})
    IN  SubSeq(sorted, 1, k) \o <<r>> \o SubSeq(sorted, k + 1, Len(sorted))

RECURSIVE SortByScore(_)
SortByScore(rs) ==
    IF rs = <<>>
    THEN <<>>
    ELSE InsertByScore(SortByScore(SubSeq(rs, 1, Len(rs) - 1)), rs[Len(rs)])

\* ReassignRanks that leaves the generator's ranks in place
KeepGeneratorRanks(rs) == rs

ReassignRanks(rs) == [i \in DOMAIN rs |-> [rs[i] EXCEPT !.rank = i]]

Reconcile(rs) == ReassignRanks(SortByScore(rs))

(***************************************************************************)
(* ProfileNormalizer: parse_resume, from profile_data to CaregiverProfile. *)
(***************************************************************************)
valid_care_types ==
    {"childcare", "eldercare", "special-needs", "post-surgery", "dementia",
     "disability", "not-applicable"}

Unknown == <<"U","n","k","n","o","w","n">>

\* care_types without the allow-list filter
care_types_unfiltered(data) == Get(data, "careTypes", <<>>)

care_types(data) ==
    SelectSeq(Get(data, "careTypes", <<>>), LAMBDA ct : ct \in valid_care_types)

NormalizeProfile(data, text) ==
    [name |-> Get(data, "candidate_name", Get(data, "name", Unknown)),
     careTypes |-> IF care_types(data) # <<>>
                   THEN care_types(data)
                   ELSE <<"No Relevant Experience">>,
     yearsOfExperience |->
         Get(data, "totalYearsOfExperience", Get(data, "yearsOfExperience", 0)),
     languages |-> Get(data, "languages", <<"English">>),
     skills |-> Get(data, "skills", <<>>),
     certifications |-> Get(data, "certifications", <<>>),
     summary |-> Get(data, "summary", "Caregiver profile parsed from resume."),
     rawText |-> text,
     caregiving_experience |-> caregiving_experience(data)]

(***************************************************************************)
(* Requests and generator outputs the model draws from.                    *)
(***************************************************************************)
PdfName == <<"c","v",".","p","d","f">>
PdfNameUpper == <<"C","V",".","P","D","F">>
TxtName == <<"c","v",".","t","x","t">>
DotPdf == <<".","p","d","f">>

Filenames == {<<>>, PdfName, PdfNameUpper, TxtName}

Files == [filename : Filenames, file_bytes : SeqsUpTo({37}, MaxFileBytes)]
NoFile == [filename |-> <<>>, file_bytes |-> <<>>]

PdfTexts == {<<>>, <<" ", "\n">>, <<" ", "R", "N", "\n">>}

ProfileOutputs ==
    {Merge(a, Merge(b, c)) :
        a \in Opt("candidate_name", {JaneDoe}),
        b \in Opt("careTypes", {<<>>, <<"invalid-type">>,
                                <<"eldercare", "invalid-type", "dementia">>}),
        c \in Opt("summary", {"", "Experienced caregiver."})}

\* the profile lists and generator arrays of each specification
AnyProfiles ==
    {CaregiverProfile("p1", JaneDoe), CaregiverProfile("", JohnRoe)}

AnyItems ==
    {Merge(a, Merge(b, c)) :
        a \in Opt("id", {"p1", "p9"}),
        b \in Opt("candidate_profile", {[candidate_name |-> JOHNROE]}),
        c \in Opt("match_score", {0, 90})}

IdProfiles ==
    {CaregiverProfile(i, n) : i \in {"", "p1"}, n \in {JaneDoe, JohnRoe}}

IdItems ==
    {Merge(a, Merge(b, c)) :
        a \in Opt("id", {"", "p1", "p9"}),
        b \in Opt("candidate_profile",
                  {EmptyDict, [candidate_name |-> <<>>],
                   [candidate_name |-> janedoe]}),
        c \in Opt("name", {JOHNROE, nobody})}

BadgeProfiles == {CaregiverProfile("p1", JaneDoe)}

BadgeItems ==
    {Merge([id |-> "p1"], Merge(a, b)) :
        a \in Opt("match_score", {0, 49, 50, 69, 70, 84, 85, 100}),
        b \in Opt("match_badge", {"", "Strong Match", "Excellent"})}

RankItems ==
    {Merge([id |-> i, match_score |-> s], a) :
        i \in {"p1", "p2"}, s \in {10, 40, 90}, a \in Opt("match_rank", {2})}

\* generator texts: blanks, an opening fence, a body, a closing fence, blanks
JsonTag == <<"j","s","o","n">>
ObjectA == <<"{", "\"", "a", "\"", ":", "1", "}">>
ObjectALines == <<"{", "\n", " ", "\"", "a", "\"", ":", " ", "1", "\n", "}">>
ListOfTwo == <<"[", "1", ",", "2", "0", "]">>
NotJson == <<"o", "k">>

Pads == SeqsUpTo({" ", "\n"}, MaxPad)

GeneratorTexts ==
    {pad1 \o open \o sep1 \o body \o sep2 \o close \o pad2 :
        pad1 \in Pads, pad2 \in Pads,
        open \in {<<>>, Fence, Fence \o JsonTag},
        sep1 \in {<<>>, <<"\n">>},
        body \in {ObjectA, ObjectALines, ListOfTwo, NotJson, <<>>},
        sep2 \in {<<>>, <<"\n">>, <<"\n", " ">>},
        close \in {<<>>, Fence, Fence \o JsonTag}}

\* experience mappings handed to sanitize_experience_data
YearsStrings == SeqsUpTo({"3", "0", " ", "+", "a"}, MaxYearsLen)

YearsValues == {JNull, JInt(0), JInt(5)} \cup {JStr(y) : y \in YearsStrings}

Bathing == <<"bathing">>

SanitizerArgs ==
    {None}
    \cup {Merge(Merge(y, tasks), extra) :
            y \in Opt("years", YearsValues),
            tasks \in Opt("tasks_performed", {Bathing}),
            extra \in Opt("medical_care", {<<>>})}

(***************************************************************************)
(* The state after the request arrived, before the handler ran.            *)
(***************************************************************************)
InitWith(ProfileLists) ==
    /\ op \in {"parse_resume", "match"}
    /\ pc = "start"
    /\ \/ op = "parse_resume" /\ file \in Files /\ profiles = <<>>
       \/ op = "match" /\ file = NoFile /\ profiles \in ProfileLists
    /\ extracted_text = <<>>
    /\ profile_data = EmptyDict
    /\ profile = None
    /\ match_data = <<>>
    /\ appended = <<>>
    /\ results = <<>>
    /\ kickoffs = 0
    /\ error = NoError
    /\ arg = None
    /\ ret = None

Fail(e) ==
    /\ pc' = "failed"
    /\ error' = e

(***************************************************************************)
(* parse_resume                                                            *)
(***************************************************************************)
\* lines 357-371: the checks before the generator is used; extract_pdf_text
\* either raises or returns some text
ParseValidate ==
    /\ op = "parse_resume" /\ pc = "start"
    /\ UNCHANGED <<arg, ret>>
    /\ IF file.filename = <<>> \/ ~endswith(lower(file.filename), DotPdf)
       THEN /\ Fail(HTTPException(400, "Only PDF files are accepted"))
            /\ UNCHANGED extracted_text
       ELSE IF Len(file.file_bytes) = 0
       THEN /\ Fail(HTTPException(400, "Empty file"))
            /\ UNCHANGED extracted_text
       ELSE \/ /\ Fail(HTTPException(422, "Failed to extract text from PDF"))
               /\ UNCHANGED extracted_text
            \/ \E text \in PdfTexts :
                  /\ extracted_text' = text
                  /\ IF strip(text) = <<>>
                     THEN Fail(HTTPException(422, "No text content found in PDF"))
                     ELSE pc' = "kickoff" /\ UNCHANGED error
    /\ UNCHANGED <<op, file, profile_data, profile, profiles, match_data,
                   appended, results, kickoffs>>

\* ParseKickoff that calls the generator again when its text is not JSON
ParseKickoffRetrying(Outputs) ==
    /\ op = "parse_resume" /\ pc = "kickoff"
    /\ UNCHANGED <<arg, ret>>
    /\ kickoffs < 3
    /\ kickoffs' = kickoffs + 1
    /\ \/ /\ Fail(HTTPException(500, "Resume parsing failed"))
          /\ UNCHANGED profile_data
       \/ UNCHANGED <<pc, error, profile_data>>
       \/ \E data \in Outputs :
             /\ profile_data' = data
             /\ pc' = "normalize"
             /\ UNCHANGED error
    /\ UNCHANGED <<op, file, extracted_text, profile, profiles, match_data,
                   appended, results>>

\* lines 404-412: crew.kickoff() and parse_json_from_text(result.raw)
ParseKickoff(Outputs) ==
    /\ op = "parse_resume" /\ pc = "kickoff"
    /\ UNCHANGED <<arg, ret>>
    /\ kickoffs' = kickoffs + 1
    /\ \/ /\ Fail(HTTPException(500, "Resume parsing failed"))
          /\ UNCHANGED profile_data
       \/ /\ Fail(HTTPException(500, "AI agent returned invalid JSON for resume parsing"))
          /\ UNCHANGED profile_data
       \/ \E data \in Outputs :
             /\ profile_data' = data
             /\ pc' = "normalize"
             /\ UNCHANGED error
    /\ UNCHANGED <<op, file, extracted_text, profile, profiles, match_data,
                   appended, results>>

\* lines 414-445
ParseNormalize ==
    /\ op = "parse_resume" /\ pc = "normalize"
    /\ UNCHANGED <<arg, ret>>
    /\ profile' = NormalizeProfile(profile_data, extracted_text)
    /\ pc' = "done"
    /\ UNCHANGED <<op, file, extracted_text, profile_data, profiles, match_data,
                   appended, results, kickoffs, error>>

(***************************************************************************)
(* match_caregivers                                                        *)
(***************************************************************************)
\* MatchValidate with the emptiness check made after the generator call
MatchValidateAfterKickoff ==
    /\ op = "match" /\ pc = "start"
    /\ UNCHANGED <<arg, ret>>
    /\ IF profiles = <<>>
       THEN /\ Fail(HTTPException(400, "At least one caregiver profile is required"))
            /\ kickoffs' = kickoffs + 1
       ELSE pc' = "kickoff" /\ UNCHANGED <<error, kickoffs>>
    /\ UNCHANGED <<op, file, extracted_text, profile_data, profile, profiles,
                   match_data, appended, results>>

\* lines 453-454
MatchValidate ==
    /\ op = "match" /\ pc = "start"
    /\ UNCHANGED <<arg, ret>>
    /\ IF profiles = <<>>
       THEN Fail(HTTPException(400, "At least one caregiver profile is required"))
       ELSE pc' = "kickoff" /\ UNCHANGED error
    /\ UNCHANGED <<op, file, extracted_text, profile_data, profile, profiles,
                   match_data, appended, results, kickoffs>>

\* lines 549-558: crew.kickoff(), parse_json_from_text(result.raw), the list check
MatchKickoff(Outputs) ==
    /\ op = "match" /\ pc = "kickoff"
    /\ UNCHANGED <<arg, ret>>
    /\ kickoffs' = kickoffs + 1
    /\ \/ /\ Fail(HTTPException(500, "Matching failed"))
          /\ UNCHANGED match_data
       \/ /\ Fail(HTTPException(500, "AI agent returned invalid JSON for matching"))
          /\ UNCHANGED match_data
       \/ /\ Fail(HTTPException(500, "AI agent returned unexpected format"))
          /\ UNCHANGED match_data
       \/ \E data \in Outputs :
             /\ match_data' = data
             /\ pc' = "assemble"
             /\ UNCHANGED error
    /\ UNCHANGED <<op, file, extracted_text, profile_data, profile, profiles,
                   appended, results>>

\* MatchAssemble that lower-cases the profiles' names in place for the name lookup
MatchAssembleLoweringNames ==
    /\ op = "match" /\ pc = "assemble"
    /\ UNCHANGED <<arg, ret>>
    /\ profiles' = [i \in DOMAIN profiles |->
                       [profiles[i] EXCEPT !.name = lower(profiles[i].name)]]
    /\ appended' = LoopResults(profiles', match_data)
    /\ match_data' = LoopData(profiles', match_data)
    /\ results' = Reconcile(SelectSeq(appended', LAMBDA r : r # None))
    /\ pc' = "done"
    /\ UNCHANGED <<op, file, extracted_text, profile_data, profile,
                   kickoffs, error>>

\* lines 560-660: the lookups, the loop over match_data, the sort, the ranks
MatchAssemble ==
    /\ op = "match" /\ pc = "assemble"
    /\ UNCHANGED <<arg, ret>>
    /\ appended' = LoopResults(profiles, match_data)
    /\ match_data' = LoopData(profiles, match_data)
    /\ results' = Reconcile(SelectSeq(appended', LAMBDA r : r # None))
    /\ pc' = "done"
    /\ UNCHANGED <<op, file, extracted_text, profile_data, profile, profiles,
                   kickoffs, error>>

(***************************************************************************)
(* A helper function called on its own.                                    *)
(***************************************************************************)
InitCall(name, Args) ==
    /\ op = name
    /\ pc = "start"
    /\ arg \in Args
    /\ ret = None
    /\ file = NoFile
    /\ profiles = <<>>
    /\ extracted_text = <<>>
    /\ profile_data = EmptyDict
    /\ profile = None
    /\ match_data = <<>>
    /\ appended = <<>>
    /\ results = <<>>
    /\ kickoffs = 0
    /\ error = NoError

\* lines 179-189
ParseJsonCall ==
    /\ op = "parse_json_from_text" /\ pc = "start"
    /\ ret' = parse_json_from_text(arg)
    /\ pc' = "done"
    /\ UNCHANGED <<op, file, extracted_text, profile_data, profile, profiles,
                   match_data, appended, results, kickoffs, error, arg>>

\* lines 101-130: cleaned is a copy, exp_data stays as it was
SanitizeCall ==
    /\ op = "sanitize_experience_data" /\ pc = "start"
    /\ ret' = sanitize_experience_data(arg)
    /\ pc' = "done"
    /\ UNCHANGED <<op, file, extracted_text, profile_data, profile, profiles,
                   match_data, appended, results, kickoffs, error, arg>>

(***************************************************************************)
(* Specifications: one request, with the profile lists and the generator   *)
(* outputs of each.                                                        *)
(***************************************************************************)
Init == InitWith(SeqsUpTo(AnyProfiles, MaxProfiles))

Next ==
    \/ ParseValidate
    \/ ParseKickoff(ProfileOutputs)
    \/ ParseNormalize
    \/ MatchValidate
    \/ MatchKickoff(SeqsUpTo(AnyItems, MaxEntries))
    \/ MatchAssemble

Spec == Init /\ [][Next]_vars

InitIdentity == InitWith(SeqsUpTo(IdProfiles, MaxProfiles))

NextIdentity ==
    \/ ParseValidate
    \/ ParseKickoff(ProfileOutputs)
    \/ ParseNormalize
    \/ MatchValidate
    \/ MatchKickoff(SeqsUpTo(IdItems, MaxIdEntries))
    \/ MatchAssemble

SpecIdentity == InitIdentity /\ [][NextIdentity]_vars

InitBadge == InitWith(SeqsUpTo(BadgeProfiles, MaxProfiles))

NextBadge ==
    \/ ParseValidate
    \/ ParseKickoff(ProfileOutputs)
    \/ ParseNormalize
    \/ MatchValidate
    \/ MatchKickoff(SeqsUpTo(BadgeItems, MaxBadgeEntries))
    \/ MatchAssemble

SpecBadge == InitBadge /\ [][NextBadge]_vars

InitRank ==
    InitWith({<<>>, <<CaregiverProfile("p1", JaneDoe), CaregiverProfile("p2", JohnRoe)>>})

NextRank ==
    \/ ParseValidate
    \/ ParseKickoff(ProfileOutputs)
    \/ ParseNormalize
    \/ MatchValidate
    \/ MatchKickoff(SeqsUpTo(RankItems, MaxRankEntries))
    \/ MatchAssemble

SpecRank == InitRank /\ [][NextRank]_vars

(***************************************************************************)
(* Properties.  Helpers that read the request and the generator's array    *)
(* as the properties state them.                                           *)
(***************************************************************************)
Returned == op = "match" /\ pc = "done"

\* the indices of match_data whose item the loop kept
Kept == {i \in DOMAIN appended : appended[i] # None}

EntryScore(i) == IF "match_score" \in DOMAIN match_data[i] THEN match_data[i].match_score ELSE 0

EntryRank(i) == IF "match_rank" \in DOMAIN match_data[i] THEN match_data[i].match_rank ELSE 0

\* the 1-based place of kept item i when the kept items are put in order of
\* score, highest first, items of equal score in the array's order
StablePlace(i) ==
    1 + Cardinality({j \in Kept :
            \/ EntryScore(j) > EntryScore(i)
            \/ EntryScore(j) = EntryScore(i) /\ j < i})

\* result k is what the loop appended for item i, but for the rank
IsResultOf(k, i) ==
    /\ k \in DOMAIN results
    /\ results[k].caregiver = appended[i].caregiver
    /\ results[k].score = EntryScore(i)
    /\ results[k].match_badge = appended[i].match_badge

StableOrder ==
    /\ Len(results) = Cardinality(Kept)
    /\ \A i \in Kept : IsResultOf(StablePlace(i), i) /\ results[StablePlace(i)].rank = StablePlace(i)

ExampleScores ==
    /\ Len(match_data) = 4
    /\ Kept = 1..4
    /\ <<EntryScore(1), EntryScore(2), EntryScore(3), EntryScore(4)>> = <<40, 90, 90, 10>>

\* item i of the array got rank ranks[i]
RanksInArrayOrder(ranks) ==
    \A i \in 1..4 : IsResultOf(ranks[i], i) /\ results[ranks[i]].rank = ranks[i]

\* C1: in every returned list the result at position i has rank i, and along
\* the list ranks strictly increase and scores never increase, whatever
\* match_rank values the generator gave.
C1_RanksFollowScores ==
    Returned =>
        /\ \A i \in DOMAIN results : results[i].rank = i
        /\ \A i \in 1..(Len(results) - 1) :
              /\ results[i].rank < results[i + 1].rank
              /\ results[i].score >= results[i + 1].score

\* C1 witness: three or more results were returned, the generator ranked every
\* item 2, and the array was not in score order.
C1_Witness ==
    /\ Returned
    /\ Len(results) >= 3
    /\ \A i \in DOMAIN match_data : EntryRank(i) = 2
    /\ EntryScore(1) < EntryScore(2)
    /\ EntryScore(2) > EntryScore(3)

\* C2 as stated: results of equal score keep the array's order, and scores
\* [40, 90, 90, 10] receive ranks [4, 1, 2, 3].
C2_Original ==
    Returned =>
        /\ StableOrder
        /\ ExampleScores => RanksInArrayOrder(<<4, 1, 2, 3>>)

\* C2 amended: results of equal score keep the array's order, the earlier item
\* getting the smaller rank, and scores [40, 90, 90, 10] receive ranks
\* [3, 1, 2, 4].
C2_StableRanks ==
    Returned =>
        /\ StableOrder
        /\ \A i, j \in Kept :
              i < j /\ EntryScore(i) = EntryScore(j) => StablePlace(i) < StablePlace(j)
        /\ ExampleScores => RanksInArrayOrder(<<3, 1, 2, 4>>)

\* C2 witness: the example array, its two items of score 90 naming different
\* caregivers, has been reconciled.
C2_Witness ==
    /\ Returned
    /\ ExampleScores
    /\ appended[2].caregiver # appended[3].caregiver
    /\ results[1].caregiver = appended[2].caregiver
    /\ results[2].caregiver = appended[3].caregiver

\* the name the item gives: candidate_profile.candidate_name, or the flat
\* name field when that is empty or absent
EntryName(i) ==
    LET e == match_data[i]
    IN  IF /\ "candidate_profile" \in DOMAIN e
           /\ "candidate_name" \in DOMAIN e.candidate_profile
           /\ e.candidate_profile.candidate_name # <<>>
        THEN e.candidate_profile.candidate_name
        ELSE IF "name" \in DOMAIN e THEN e.name ELSE <<>>

EntryId(i) == IF "id" \in DOMAIN match_data[i] THEN match_data[i].id ELSE ""

SameIgnoringCase(a, b) ==
    /\ Len(a) = Len(b)
    /\ \A k \in 1..Len(a) : LowerChar(a[k]) = LowerChar(b[k])

NameMatches(i) == {p \in Range(profiles) : SameIgnoringCase(p.name, EntryName(i))}

TierOf(score) ==
    CASE score >= 85 -> "Top Match"
      [] score >= 70 /\ score < 85 -> "Strong Match"
      [] score >= 50 /\ score < 70 -> "Good Match"
      [] score < 50 -> "No Match"

Badges == {"Top Match", "Strong Match", "Good Match", "No Match"}

NoBadgeGiven(i) ==
    \/ "match_badge" \notin DOMAIN match_data[i]
    \/ match_data[i].match_badge = ""

\* C3: a resolved item that carries no match_badge (absent or empty) gets the
\* badge of its score's tier, boundaries 85, 70 and 50 in the higher tier, an
\* absent score counting as 0; and the returned list holds that result.
C3_BadgeFromScore ==
    Returned =>
        \A i \in Kept :
            NoBadgeGiven(i) =>
                /\ appended[i].match_badge = TierOf(EntryScore(i))
                /\ \E k \in DOMAIN results :
                      /\ results[k].score = EntryScore(i)
                      /\ results[k].match_badge = TierOf(EntryScore(i))

\* C3 witness: an item of score exactly 85 and no badge was returned as
\* "Top Match".
C3_Witness ==
    /\ Returned
    /\ Len(match_data) = 1
    /\ Kept = {1}
    /\ "match_badge" \notin DOMAIN match_data[1]
    /\ EntryScore(1) = 85
    /\ results[1].match_badge = "Top Match"

\* C4 as stated: every returned result's badge is one of the four values, also
\* when the generator supplied the badge.
C4_Original ==
    Returned => \A k \in DOMAIN results : results[k].match_badge \in Badges

\* C5: an item whose id is the id of some profile resolves to a profile with
\* that id, whatever its name matches; otherwise it resolves to a profile
\* whose name equals the item's name ignoring case; otherwise it is dropped.
C5_IdThenName ==
    Returned =>
        \A i \in DOMAIN match_data :
            IF \E p \in Range(profiles) : p.id = EntryId(i)
            THEN /\ i \in Kept
                 /\ appended[i].caregiver \in Range(profiles)
                 /\ appended[i].caregiver.id = EntryId(i)
            ELSE IF NameMatches(i) # {}
            THEN /\ i \in Kept
                 /\ appended[i].caregiver \in NameMatches(i)
            ELSE i \notin Kept

\* C5 witness: an item carrying the id of one profile and the name of another
\* resolved to the profile with the id.
C5_Witness ==
    /\ Returned
    /\ Len(match_data) = 1
    /\ EntryId(1) = "p1"
    /\ \E p \in NameMatches(1) : p.id # "p1"
    /\ Kept = {1}
    /\ results[1].caregiver.id = "p1"
    /\ ~SameIgnoringCase(results[1].caregiver.name, EntryName(1))

\* C6 as stated: an item with no id, or an empty one, resolves only by name:
\* to a profile of that name ignoring case, and is dropped when there is none,
\* even if a profile has the empty id.
C6_Original ==
    Returned =>
        \A i \in DOMAIN match_data :
            EntryId(i) = "" =>
                IF NameMatches(i) # {}
                THEN i \in Kept /\ appended[i].caregiver \in NameMatches(i)
                ELSE i \notin Kept

\* C7: the loop drops exactly the items that resolve to no profile, and the
\* returned list holds exactly one result for each item kept, whatever its
\* score.
C7_OnlyUnresolvedDropped ==
    Returned =>
        /\ Len(appended) = Len(match_data)
        /\ \A i \in DOMAIN match_data :
              i \in Kept <=>
                  \/ \E p \in Range(profiles) : p.id = EntryId(i)
                  \/ NameMatches(i) # {}
        /\ Len(results) = Cardinality(Kept)
        /\ \A i \in Kept :
              Cardinality({k \in DOMAIN results : IsResultOf(k, i)})
                  = Cardinality({j \in Kept :
                        /\ appended[j].caregiver = appended[i].caregiver
                        /\ EntryScore(j) = EntryScore(i)
                        /\ appended[j].match_badge = appended[i].match_badge})

\* C7 witness: of two items, the one that resolves to no profile was dropped
\* and the other, of score 0, was returned.
C7_Witness ==
    /\ Returned
    /\ Len(match_data) = 2
    /\ Kept = {2}
    /\ "match_score" \in DOMAIN match_data[2]
    /\ EntryScore(2) = 0
    /\ Len(results) = 1
    /\ results[1].score = 0

\* C8: the caregiver of every returned result is one of the request's
\* profiles.
C8_CaregiverFromRequest ==
    \A k \in DOMAIN results : results[k].caregiver \in Range(profiles)

\* C8 witness: an item whose candidate_profile spells the name in another case
\* was returned with the request's profile.
C8_Witness ==
    /\ Returned
    /\ Len(match_data) = 1
    /\ Kept = {1}
    /\ EntryName(1) = janedoe
    /\ results[1].caregiver.name = JaneDoe
    /\ results[1].caregiver \in Range(profiles)

\* C9: no step of a request changes the caller's profiles.
C9_ProfilesUnchanged == [][profiles' = profiles]_vars

\* C9 witness: a match request ran to its end and returned results in another
\* order than the profiles'.
C9_Witness ==
    /\ Returned
    /\ Len(profiles) = 2
    /\ Len(results) = 2
    /\ results[1].caregiver = profiles[2]
    /\ results[2].caregiver = profiles[1]

ValidationErrors ==
    {HTTPException(400, "At least one caregiver profile is required"),
     HTTPException(400, "Only PDF files are accepted"),
     HTTPException(400, "Empty file"),
     HTTPException(422, "Failed to extract text from PDF"),
     HTTPException(422, "No text content found in PDF")}

\* C10: a request that ended in an input validation error made no generator
\* call; a match request with no profiles ends in NoProfiles, a parse request
\* for a non-PDF name in UnsupportedFormat, for a PDF of zero bytes in
\* EmptyInput, and one whose text is only whitespace in NoTextContent.
C10_ValidationBeforeGenerator ==
    /\ error \in ValidationErrors => kickoffs = 0 /\ pc = "failed"
    /\ kickoffs > 0 => error \notin ValidationErrors
    /\ op = "match" /\ profiles = <<>> /\ pc # "start" =>
          error = HTTPException(400, "At least one caregiver profile is required")
    /\ op = "parse_resume" /\ pc # "start" /\ file.filename \in {<<>>, TxtName} =>
          error = HTTPException(400, "Only PDF files are accepted")
    /\ op = "parse_resume" /\ pc # "start" /\ file.filename \in {PdfName, PdfNameUpper}
          /\ file.file_bytes = <<>> =>
          error = HTTPException(400, "Empty file")
    /\ op = "parse_resume" /\ pc # "start" /\ extracted_text \in {<<" ", "\n">>} =>
          error = HTTPException(422, "No text content found in PDF")

\* C10 witness: a match request with no profiles has failed.
C10_Witness ==
    /\ op = "match"
    /\ profiles = <<>>
    /\ pc = "failed"
    /\ error = HTTPException(400, "At least one caregiver profile is required")

ProfileReturned == op = "parse_resume" /\ pc = "done"

GeneratorErrors ==
    {HTTPException(500, "Resume parsing failed"),
     HTTPException(500, "AI agent returned invalid JSON for resume parsing"),
     HTTPException(500, "Matching failed"),
     HTTPException(500, "AI agent returned invalid JSON for matching")}

\* C11: a request calls the generator at most once; one that ended because
\* the generator call raised, or its text was not JSON, has failed after that
\* one call and has returned neither a profile nor a result list.
C11_SingleGeneratorCall ==
    /\ kickoffs <= 1
    /\ error \in GeneratorErrors =>
          /\ pc = "failed"
          /\ kickoffs = 1
          /\ profile = None
          /\ results = <<>>
    /\ pc \in {"normalize", "assemble", "done"} => kickoffs = 1

\* C11 witness: a parse request failed on generator text that was not JSON,
\* after one call.
C11_Witness ==
    /\ op = "parse_resume"
    /\ pc = "failed"
    /\ error = HTTPException(500, "AI agent returned invalid JSON for resume parsing")
    /\ kickoffs = 1

AllowList ==
    {"childcare", "eldercare", "special-needs", "post-surgery", "dementia",
     "disability", "not-applicable"}

ClaimedCareTypes ==
    IF "careTypes" \in DOMAIN profile_data THEN profile_data.careTypes ELSE <<>>

Surviving == {i \in DOMAIN ClaimedCareTypes : ClaimedCareTypes[i] \in AllowList}

\* C13: a returned profile's careTypes is never empty: it is the claimed
\* values that are in the allow-list, in the generator's order, or exactly
\* ["No Relevant Experience"] when none is (or no careTypes was given).
C13_CareTypesNeverEmpty ==
    ProfileReturned =>
        /\ profile.careTypes # <<>>
        /\ IF Surviving = {}
           THEN profile.careTypes = <<"No Relevant Experience">>
           ELSE /\ Len(profile.careTypes) = Cardinality(Surviving)
                /\ \A k \in DOMAIN profile.careTypes : profile.careTypes[k] \in AllowList
                /\ \A i \in Surviving :
                      profile.careTypes[Cardinality({j \in Surviving : j <= i})]
                          = ClaimedCareTypes[i]

\* C13 witness: of three claimed values the unknown one in the middle was
\* dropped and the other two were kept in order.
C13_Witness ==
    /\ ProfileReturned
    /\ ClaimedCareTypes = <<"eldercare", "invalid-type", "dementia">>
    /\ profile.careTypes = <<"eldercare", "dementia">>

\* C14 as stated: the summary of every returned profile is a non-empty string.
C14_Original ==
    ProfileReturned => profile.summary # ""


InitPayload == InitCall("parse_json_from_text", GeneratorTexts)

NextPayload == ParseJsonCall

SpecPayload == InitPayload /\ [][NextPayload]_vars

\* the text of C12 read by character positions rather than by lines
Trimmed == strip(arg)

NewlinesOf(s) == {i \in DOMAIN s : s[i] = "\n"}

Least(S) == CHOOSE i \in S : \A j \in S : i <= j

Greatest(S) == CHOOSE i \in S : \A j \in S : j <= i

\* s without its first line; nothing when s is one line
AfterFirstLine(s) ==
    IF NewlinesOf(s) = {} THEN <<>> ELSE SubSeq(s, Least(NewlinesOf(s)) + 1, Len(s))

LastLineOf(s) ==
    IF NewlinesOf(s) = {} THEN s ELSE SubSeq(s, Greatest(NewlinesOf(s)) + 1, Len(s))

WithoutLastLine(s) ==
    IF NewlinesOf(s) = {} THEN <<>> ELSE SubSeq(s, 1, Greatest(NewlinesOf(s)) - 1)

\* a line that is the three backticks alone, blanks around them aside
IsMarkerLine(line) ==
    \E i, j \in 0..Len(line) :
        /\ i + 3 + j = Len(line)
        /\ \A k \in 1..i : line[k] \in {" ", "\t", "\r"}
        /\ \A k \in (i + 1)..(i + 3) : line[k] = Backtick
        /\ \A k \in (i + 4)..Len(line) : line[k] \in {" ", "\t", "\r"}

ExpectedJsonText ==
    IF Len(Trimmed) >= 3 /\ \A k \in 1..3 : Trimmed[k] = Backtick
    THEN IF IsMarkerLine(LastLineOf(AfterFirstLine(Trimmed)))
         THEN WithoutLastLine(AfterFirstLine(Trimmed))
         ELSE AfterFirstLine(Trimmed)
    ELSE Trimmed

FencedExample == Fence \o JsonTag \o <<"\n">> \o ObjectA \o <<"\n">> \o Fence

Key_a == <<"a">>

MappingA1 == JDict([k \in {Key_a} |-> JInt(1)])

PayloadReturned == op = "parse_json_from_text" /\ pc = "done"

\* C12: parse_json_from_text returns what json.loads gives for the trimmed
\* text when that does not begin with three backticks; otherwise for the text
\* without its first line and, exactly when the last line is three backticks,
\* without its last line; a json-tagged fence around {"a":1} gives {"a": 1}.
C12_FenceStripping ==
    PayloadReturned =>
        /\ ret = json_loads(ExpectedJsonText)
        /\ arg = FencedExample => ret = MappingA1

\* C12 witness: a fenced object written over three lines, with no closing
\* fence, was decoded whole.
C12_Witness ==
    /\ PayloadReturned
    /\ arg = Fence \o JsonTag \o <<"\n">> \o ObjectALines
    /\ ret = MappingA1


InitSanitize == InitCall("sanitize_experience_data", SanitizerArgs)

NextSanitize == SanitizeCall

SpecSanitize == InitSanitize /\ [][NextSanitize]_vars

SanitizerReturned == op = "sanitize_experience_data" /\ pc = "done"

NoMapping(m) == m = None \/ DOMAIN m = {}

\* blanks, an optional sign, one digit or more, blanks
IsNumericString(s) ==
    \E a, b \in 0..Len(s) :
        /\ a < b
        /\ \A k \in 1..a : s[k] \in Whitespace
        /\ \A k \in (b + 1)..Len(s) : s[k] \in Whitespace
        /\ \/ \A k \in (a + 1)..b : IsDigit(s[k])
           \/ /\ s[a + 1] \in {"+", "-"}
              /\ a + 1 < b
              /\ \A k \in (a + 2)..b : IsDigit(s[k])

\* the number the digits of s spell, read from the right
RECURSIVE NumberSpelled(_)
NumberSpelled(s) ==
    IF s = <<>> THEN 0
    ELSE IF IsDigit(s[Len(s)])
    THEN 10 * NumberSpelled(SubSeq(s, 1, Len(s) - 1)) + DigitValue(s[Len(s)])
    ELSE NumberSpelled(SubSeq(s, 1, Len(s) - 1))

NumberOf(s) ==
    IF \E k \in DOMAIN s : s[k] = "-" THEN 0 - NumberSpelled(s) ELSE NumberSpelled(s)

ExpectedYears(m) ==
    IF "years" \notin DOMAIN m THEN 0
    ELSE IF m["years"].t = "str"
    THEN IF IsNumericString(m["years"].s) THEN NumberOf(m["years"].s) ELSE 0
    ELSE IF m["years"].t = "NoneType" THEN 0
    ELSE m["years"].n

YearsString(m, chars) ==
    /\ ~NoMapping(m)
    /\ "years" \in DOMAIN m
    /\ m["years"].t = "str"
    /\ m["years"].s = chars

YearsFloat(m, n) ==
    /\ "years" \in DOMAIN m
    /\ m["years"].t = "float"
    /\ m["years"].n = n

SanitizedAsClaimed ==
    SanitizerReturned =>
        IF NoMapping(arg)
        THEN DOMAIN ret = {}
        ELSE /\ DOMAIN ret = DOMAIN arg
             /\ \A k \in (DOMAIN arg) \ {"years"} : ret[k] = arg[k]
             /\ TypedExperience("eldercare", ret).years = ExpectedYears(arg)
             /\ ("years" \in DOMAIN arg /\ arg["years"].t = "int") =>
                    ret["years"] = arg["years"]
             /\ ("years" \in DOMAIN arg /\ arg["years"].t \in {"str", "NoneType"}) =>
                    YearsFloat(ret, ExpectedYears(arg))
             /\ YearsString(arg, <<"3">>) => YearsFloat(ret, 3)
             /\ YearsString(arg, <<>>) => YearsFloat(ret, 0)
             /\ YearsString(arg, <<"3", "+">>) => YearsFloat(ret, 0)

\* C15: the typed record built from the sanitized mapping has the parsed
\* number for a numeric years string ("3" gives 3.0), 0.0 for a blank or
\* non-numeric one ("" and "3+" give 0.0), 0.0 for null or absent years and
\* the given value for a number; an empty or absent mapping gives the empty
\* mapping; the other fields pass through and the input mapping is not
\* modified.
C15_YearsCoercion == [](SanitizedAsClaimed) /\ [][arg' = arg]_vars

\* C15 witness: a mapping with years "3+" and a task list came back with
\* years 0.0 and the same task list.
C15_Witness ==
    /\ SanitizerReturned
    /\ YearsString(arg, <<"3", "+">>)
    /\ YearsFloat(ret, 0)
    /\ "tasks_performed" \in DOMAIN ret
    /\ ret["tasks_performed"] = Bathing


(***************************************************************************)
(* Requests whose generator output carries caregiving experience: the      *)
(* caregiving_experience of a parsed profile (line 419) and of an item's   *)
(* why_match (line 600).                                                   *)
(***************************************************************************)
YearsZero == JDict([years |-> JInt(0)])

ThreeYears == JDict(Merge([years |-> JStr(<<"3">>)], [tasks_performed |-> Bathing]))

Note == JStr(<<"s", "e", "e", " ", "c", "v">>)

ExperienceMappings ==
    {Merge(Merge(e, s), Merge(n, u)) :
        e \in Opt("eldercare", {JNull, JDict(EmptyDict), YearsZero, ThreeYears}),
        s \in Opt("special-needs", {JDict([years |-> JNull])}),
        n \in Opt("note", {Note}),
        u \in Opt("respite", {YearsZero})}

ExperienceProfileOutputs ==
    {Merge([candidate_name |-> JaneDoe], c) :
        c \in Opt("caregiving_experience",
                  {JNull} \cup {JDict(m) : m \in ExperienceMappings})}

MatchMappings ==
    {m \in ExperienceMappings :
        /\ "special-needs" \notin DOMAIN m
        /\ "eldercare" \in DOMAIN m => m["eldercare"] = YearsZero}

GoodFit == <<"f", "i", "t">>

WhyMatches ==
    {JStr(GoodFit)}
    \cup {JDict(Merge([explanation |-> GoodFit], c)) :
            c \in Opt("caregiving_experience",
                      {JNull, Note} \cup {JDict(m) : m \in MatchMappings})}

MatchReports ==
    {[key_strengths |-> JStr(GoodFit)]}
    \cup {[why_match |-> w] : w \in WhyMatches}

ExperienceItems ==
    {Merge([id |-> "p1", match_score |-> 90], r) : r \in Opt("match_report", MatchReports)}
    \cup {[id |-> "p9", match_score |-> 90,
           match_report |-> [why_match |->
               JDict([explanation |-> GoodFit,
                      caregiving_experience |-> JDict([note |-> Note])])]]}

InitExperience == InitWith({<<>>, <<CaregiverProfile("p1", JaneDoe)>>})

NextExperience ==
    \/ ParseValidate
    \/ ParseKickoff(ExperienceProfileOutputs)
    \/ ParseNormalize
    \/ MatchValidate
    \/ MatchKickoff(SeqsUpTo(ExperienceItems, MaxExpEntries))
    \/ MatchAssemble

SpecExperience == InitExperience /\ [][NextExperience]_vars

(***************************************************************************)
(* C16 and C17 read the mapping the generator gave and the aggregate that  *)
(* came out of it.                                                         *)
(***************************************************************************)
SixKeys ==
    {"eldercare", "childcare", "special-needs", "post-surgery", "dementia", "disability"}

SlotOf(key) ==
    CASE key = "special-needs" -> "special_needs"
      [] key = "post-surgery" -> "post_surgery"
      [] OTHER -> key

\* the mapping has a value under key, and that value is not empty
NonEmptyUnder(m, key) ==
    /\ key \in DOMAIN m
    /\ m[key].t = "dict"
    /\ DOMAIN m[key].d # {}

SlotsAsClaimed(agg, m) ==
    /\ DOMAIN agg = {SlotOf(k) : k \in SixKeys}
    /\ \A k \in SixKeys :
          /\ agg[SlotOf(k)] # None <=> NonEmptyUnder(m, k)
          /\ NonEmptyUnder(m, k) =>
                /\ agg[SlotOf(k)]["years"] = ExpectedYears(m[k].d)
                /\ \A f \in (DOMAIN agg[SlotOf(k)]) \ {"years"} :
                      agg[SlotOf(k)][f] = Get(m[k].d, f, <<>>)

\* parse_resume: the mapping of the generator's object, where it is one
ProfileMapping ==
    IF "caregiving_experience" \in DOMAIN profile_data
       /\ profile_data["caregiving_experience"].t = "dict"
    THEN profile_data["caregiving_experience"].d
    ELSE EmptyDict

WhyMatchOf(i) ==
    IF "match_report" \in DOMAIN match_data[i]
       /\ "why_match" \in DOMAIN match_data[i]["match_report"]
    THEN match_data[i]["match_report"]["why_match"]
    ELSE JDict(EmptyDict)

\* match: the mapping of item i's why_match, where it is one; the loop
\* has already discarded its note
EntryMapping(i) ==
    IF WhyMatchOf(i).t = "dict"
       /\ "caregiving_experience" \in DOMAIN WhyMatchOf(i).d
       /\ WhyMatchOf(i).d["caregiving_experience"].t = "dict"
    THEN WhyMatchOf(i).d["caregiving_experience"].d
    ELSE EmptyDict

EntryAggregate(i) == appended[i]["explanation"]["caregiving_experience"]

\* C16: in a CaregivingExperience built by parse_resume or match_caregivers,
\* each of the six slots is present exactly when the input mapping has a
\* non-empty value under its key, and then holds that value's fields; other
\* keys create and change nothing; a mapping with years 0 gives a present
\* slot with years 0.
C16_SlotPresence ==
    /\ (ProfileReturned /\ profile["caregiving_experience"] # None) =>
           SlotsAsClaimed(profile["caregiving_experience"], ProfileMapping)
    /\ Returned =>
           \A i \in Kept :
               EntryAggregate(i) # None => SlotsAsClaimed(EntryAggregate(i), EntryMapping(i))

\* C16 witness: a resume gave eldercare {years: 0}, an empty special-needs
\* and an unknown key; the eldercare slot is there with years 0 and the
\* other five are absent.
C16_Witness ==
    /\ ProfileReturned
    /\ ProfileMapping = [eldercare |-> YearsZero, respite |-> YearsZero]
    /\ profile["caregiving_experience"] # None
    /\ profile["caregiving_experience"]["eldercare"] # None
    /\ profile["caregiving_experience"]["eldercare"]["years"] = 0
    /\ \A k \in SixKeys \ {"eldercare"} :
          profile["caregiving_experience"][SlotOf(k)] = None

\* nothing but a note was ever in the mapping of item i
NothingButNote(i) == (DOMAIN EntryMapping(i)) \ {"note"} = {}

\* C17 as stated: no aggregate when the mapping is empty; for an item, when
\* its mapping holds nothing but a note, is empty or missing, or why_match
\* is a bare string; nothing carried over from an earlier item.
C17_Original ==
    /\ (ProfileReturned /\ DOMAIN ProfileMapping = {}) =>
           profile["caregiving_experience"] = None
    /\ Returned =>
           \A i \in Kept : NothingButNote(i) => EntryAggregate(i) = None

====
